---- MODULE Spec2Model ----
(***************************************************************************)
(* A model of afcvt, a converter between exact decimal/rational values and *)
(* IEEE754-style binary floating-point encodings of configurable width.    *)
(*                                                                         *)
(* Strings are sequences of one-character strings; a BigRational is a      *)
(* record [n, d] in lowest terms with d > 0; a Result or an Option is a    *)
(* record with an ok / some flag.                                          *)
(***************************************************************************)
EXTENDS Integers, Sequences, FiniteSets, TLC

VARIABLES spec, rounding, input, pc, soft, source_rational, stored_value,
          bits, hex, error, failure,
          exp      \* log2_floor's local variable while its loop is stepped

vars == <<spec, rounding, input, pc, soft, source_rational, stored_value,
          bits, hex, error, failure, exp>>

(***************************************************************************)
(* Bounds of the explored input space.                                     *)
(***************************************************************************)
MaxExpBits == 3
MaxSigBits == 3
MaxNumer == 33
MaxDenLog == 6
MaxIntDigits == 1
MaxFracDigits == 1
MaxDecExp == 1
MaxHexLen == 3
MaxSearch == 12

(***************************************************************************)
(* Arbitrary-precision integers and rationals (num_bigint, num_rational).  *)
(***************************************************************************)
Abs(x) == IF x < 0 THEN -x ELSE x

RECURSIVE Pow(_, _)
Pow(b, k) == IF k = 0 THEN 1 ELSE b * Pow(b, k - 1)

RECURSIVE Gcd(_, _)
Gcd(a, b) == IF b = 0 THEN a ELSE Gcd(b, a % b)

\* BigRational::new: sign carried by the numerator, lowest terms.
RatNew(num, den) ==
    LET g == Gcd(Abs(num), Abs(den))
        neg == (num < 0) # (den < 0)
    IN  [n |-> (IF neg THEN -1 ELSE 1) * (Abs(num) \div g), d |-> Abs(den) \div g]

RatInt(k) == [n |-> k, d |-> 1]
RatZero == RatInt(0)
RatOne == RatInt(1)
RatIsZero(r) == r.n = 0
RatIsNegative(r) == r.n < 0
RatAbs(r) == [n |-> Abs(r.n), d |-> r.d]
RatNeg(r) == [n |-> -r.n, d |-> r.d]
RatMul(a, b) == RatNew(a.n * b.n, a.d * b.d)
RatDiv(a, b) == RatNew(a.n * b.d, a.d * b.n)
RatSub(a, b) == RatNew(a.n * b.d - b.n * a.d, a.d * b.d)
RatAdd(a, b) == RatNew(a.n * b.d + b.n * a.d, a.d * b.d)
RatLe(a, b) == a.n * b.d <= b.n * a.d
RatLt(a, b) == a.n * b.d < b.n * a.d

\* BigInt::bits: the number of bits of the magnitude, 0 for 0.
RECURSIVE BitLen(_)
BitLen(k) == IF k = 0 THEN 0 ELSE 1 + BitLen(k \div 2)

\* Ord::cmp on integers.
Cmp(a, b) == IF a < b THEN "Less" ELSE IF a = b THEN "Equal" ELSE "Greater"

(***************************************************************************)
(* Format descriptor.                                                      *)
(***************************************************************************)
bias(sp) == Pow(2, sp.exponent_bits - 1) - 1

min_exponent(sp) == 1 - bias(sp)

max_exponent(sp) == bias(sp)

total_bits(sp) == 1 + sp.exponent_bits + sp.significand_bits

(***************************************************************************)
(* Quantizer.                                                              *)
(***************************************************************************)
pow2(e) == IF e >= 0 THEN RatInt(Pow(2, e)) ELSE RatNew(1, Pow(2, -e))

compare_pow2(r, e) ==
    LET pow == Pow(2, Abs(e))
    IN  IF e >= 0 THEN Cmp(r.n, r.d * pow) ELSE Cmp(r.n * pow, r.d)

\* let mut exp = num_bits - den_bits - 1
log2_floor_start(r) == BitLen(r.n) - BitLen(r.d) - 1

\* The loop's exit test: 2^e <= r < 2^(e+1).
log2_floor_found(r, e) ==
    compare_pow2(r, e) # "Less" /\ compare_pow2(r, e + 1) = "Less"

\* The loop's step taken the other way round.
log2_floor_step_reversed(r, e) ==
    IF compare_pow2(r, e) = "Less" THEN e + 1 ELSE e - 1

\* The loop's step when the exit test fails.
log2_floor_step(r, e) ==
    IF compare_pow2(r, e) = "Less" THEN e - 1 ELSE e + 1

RECURSIVE log2_floor_loop(_, _)
log2_floor_loop(r, e) ==
    LET cmp_low == compare_pow2(r, e)
        cmp_high == compare_pow2(r, e + 1)
    IN  IF cmp_low # "Less" /\ cmp_high = "Less" THEN e
        ELSE IF cmp_low = "Less" THEN log2_floor_loop(r, e - 1)
        ELSE log2_floor_loop(r, e + 1)

log2_floor(r) == log2_floor_loop(r, BitLen(r.n) - BitLen(r.d) - 1)

\* The doubling loop with a strict comparison against one.
RECURSIVE fraction_bits_loop_strict(_, _, _)
fraction_bits_loop_strict(remainder, k, result) ==
    IF k = 0 THEN [bits |-> result, sticky |-> ~RatIsZero(remainder)]
    ELSE LET doubled == RatMul(remainder, RatInt(2))
         IN  IF RatLt(RatOne, doubled)
             THEN fraction_bits_loop_strict(RatSub(doubled, RatOne), k - 1,
                                            Append(result, 1))
             ELSE fraction_bits_loop_strict(doubled, k - 1, Append(result, 0))

RECURSIVE fraction_bits_loop(_, _, _)
fraction_bits_loop(remainder, k, result) ==
    IF k = 0 THEN [bits |-> result, sticky |-> ~RatIsZero(remainder)]
    ELSE LET doubled == RatMul(remainder, RatInt(2))
         IN  IF RatLe(RatOne, doubled)
             THEN fraction_bits_loop(RatSub(doubled, RatOne), k - 1, Append(result, 1))
             ELSE fraction_bits_loop(doubled, k - 1, Append(result, 0))

fraction_bits(frac, k) == fraction_bits_loop(frac, k, <<>>)

RECURSIVE bits_to_uint(_)
bits_to_uint(bs) ==
    IF bs = <<>> THEN 0
    ELSE 2 * bits_to_uint(SubSeq(bs, 1, Len(bs) - 1))
         + (IF bs[Len(bs)] = 1 THEN 1 ELSE 0)

\* round_bits with ties rounded up instead of to even.
round_bits_half_up(bs, sticky, width, mode) ==
    LET kept_value == bits_to_uint(SubSeq(bs, 1, width))
        guard == IF width + 1 <= Len(bs) THEN bs[width + 1] ELSE 0
    IN  IF mode = "TowardZero" \/ width >= Len(bs) \/ guard # 1
        THEN [mantissa |-> kept_value, carry |-> FALSE]
        ELSE IF kept_value = Pow(2, width) - 1
             THEN [mantissa |-> 0, carry |-> TRUE]
             ELSE [mantissa |-> kept_value + 1, carry |-> FALSE]

\* round_bits that saturates at the all-ones significand and never carries.
round_bits_saturating(bs, sticky, width, mode) ==
    LET kept_value == bits_to_uint(SubSeq(bs, 1, width))
        guard == IF width + 1 <= Len(bs) THEN bs[width + 1] ELSE 0
        round_bit == IF width + 2 <= Len(bs) THEN bs[width + 2] ELSE 0
        rest_sticky == sticky \/ \E i \in (width + 3)..Len(bs) : bs[i] = 1
        should_increment ==
            IF guard = 1 /\ round_bit = 0 /\ ~rest_sticky THEN kept_value % 2 = 1
            ELSE guard = 1
    IN  IF mode = "HalfEven" /\ width < Len(bs) /\ should_increment
           /\ kept_value < Pow(2, width) - 1
        THEN [mantissa |-> kept_value + 1, carry |-> FALSE]
        ELSE [mantissa |-> kept_value, carry |-> FALSE]

round_bits(bs, sticky, width, mode) ==
    LET kept == SubSeq(bs, 1, width)
        kept_value == bits_to_uint(kept)
        guard == IF width + 1 <= Len(bs) THEN bs[width + 1] ELSE 0
        round_bit == IF width + 2 <= Len(bs) THEN bs[width + 2] ELSE 0
        rest_sticky == sticky \/ \E i \in (width + 3)..Len(bs) : bs[i] = 1
        last_kept == IF width >= 1 THEN kept[width] ELSE 0
        should_increment ==
            IF guard = 1 /\ round_bit = 0 /\ ~rest_sticky THEN last_kept = 1
            ELSE guard = 1
        max_val == Pow(2, width) - 1
    IN  IF mode = "TowardZero" THEN [mantissa |-> kept_value, carry |-> FALSE]
        ELSE IF width >= Len(bs) THEN [mantissa |-> kept_value, carry |-> FALSE]
        ELSE IF should_increment
             THEN IF kept_value = max_val
                  THEN [mantissa |-> 0, carry |-> TRUE]
                  ELSE [mantissa |-> kept_value + 1, carry |-> FALSE]
             ELSE [mantissa |-> kept_value, carry |-> FALSE]

SoftFloat(c, s, e, m) == [class |-> c, sign |-> s, exponent |-> e, significand |-> m]

InfinityClass(sgn) == IF sgn THEN "NegInfinity" ELSE "PosInfinity"

\* quantize_normal with the carry's exponent increment forgotten.
quantize_normal_carry_dropped(abs, sgn, e, sp, mode) ==
    LET fb == fraction_bits(RatSub(RatDiv(abs, pow2(e)), RatOne), sp.significand_bits + 3)
        rb == round_bits(fb.bits, fb.sticky, sp.significand_bits, mode)
    IN  SoftFloat("Normal", sgn, e, IF rb.carry THEN 0 ELSE rb.mantissa)

\* quantize_normal without the overflow test that follows a carry.
quantize_normal_unchecked_carry(abs, sgn, e, sp, mode) ==
    LET fb == fraction_bits(RatSub(RatDiv(abs, pow2(e)), RatOne), sp.significand_bits + 3)
        rb == round_bits(fb.bits, fb.sticky, sp.significand_bits, mode)
    IN  SoftFloat("Normal", sgn, IF rb.carry THEN e + 1 ELSE e,
                  IF rb.carry THEN 0 ELSE rb.mantissa)

quantize_normal(abs, sgn, e, sp, mode) ==
    LET frac == RatDiv(abs, pow2(e))
        mant == RatSub(frac, RatOne)
        needed == sp.significand_bits + 3
        fb == fraction_bits(mant, needed)
        rb == round_bits(fb.bits, fb.sticky, sp.significand_bits, mode)
        exponent == IF rb.carry THEN e + 1 ELSE e
        significand == IF rb.carry THEN 0 ELSE rb.mantissa
        max_exp == bias(sp)
    IN  IF exponent > max_exp
        THEN SoftFloat(InfinityClass(sgn), sgn, exponent, 0)
        ELSE SoftFloat("Normal", sgn, exponent, significand)

\* quantize_subnormal classifying every result without a carry as Subnormal.
quantize_subnormal_never_zero(abs, sgn, sp, mode) ==
    LET fb == fraction_bits(RatDiv(abs, pow2(min_exponent(sp))), sp.significand_bits + 3)
        rb == round_bits(fb.bits, fb.sticky, sp.significand_bits, mode)
    IN  IF rb.carry THEN SoftFloat("Normal", sgn, min_exponent(sp), 0)
        ELSE SoftFloat("Subnormal", sgn, min_exponent(sp), rb.mantissa)

\* quantize_subnormal ignoring the carry out of the significand.
quantize_subnormal_carry_lost(abs, sgn, sp, mode) ==
    LET fb == fraction_bits(RatDiv(abs, pow2(min_exponent(sp))), sp.significand_bits + 3)
        rb == round_bits(fb.bits, fb.sticky, sp.significand_bits, mode)
    IN  SoftFloat(IF rb.mantissa = 0 THEN "Zero" ELSE "Subnormal",
                  sgn, min_exponent(sp), rb.mantissa)

quantize_subnormal(abs, sgn, sp, mode) ==
    LET min_exp == min_exponent(sp)
        scaled == RatDiv(abs, pow2(min_exp))
        needed == sp.significand_bits + 3
        fb == fraction_bits(scaled, needed)
        rb == round_bits(fb.bits, fb.sticky, sp.significand_bits, mode)
    IN  IF rb.carry THEN SoftFloat("Normal", sgn, min_exp, 0)
        ELSE SoftFloat(IF rb.mantissa = 0 THEN "Zero" ELSE "Subnormal",
                       sgn, min_exp, rb.mantissa)

\* A ParsedValue is [kind |-> "Finite", v |-> r] or [kind |-> "PosInfinity" |
\* "NegInfinity" | "Nan", v |-> RatZero].
Finite(r) == [kind |-> "Finite", v |-> r]
Special(k) == [kind |-> k, v |-> RatZero]

\* parsed_to_softfloat saturating at the largest finite value on overflow.
parsed_to_softfloat_saturating(value, sp, mode) ==
    LET sgn == value.kind = "NegInfinity" \/ (value.kind = "Finite" /\ RatIsNegative(value.v))
        abs == RatAbs(value.v)
    IN  CASE value.kind = "Nan" -> SoftFloat("Nan", FALSE, 0, 0)
          [] value.kind \in {"PosInfinity", "NegInfinity"} ->
                SoftFloat(value.kind, sgn, max_exponent(sp) + 1, 0)
          [] OTHER ->
                IF RatIsZero(value.v) THEN SoftFloat("Zero", sgn, min_exponent(sp), 0)
                ELSE IF log2_floor(abs) > bias(sp)
                     THEN SoftFloat("Normal", sgn, bias(sp), Pow(2, sp.significand_bits) - 1)
                     ELSE IF log2_floor(abs) >= 1 - bias(sp)
                          THEN quantize_normal(abs, sgn, log2_floor(abs), sp, mode)
                          ELSE quantize_subnormal(abs, sgn, sp, mode)

parsed_to_softfloat(value, sp, mode) ==
    LET sgn == CASE value.kind = "Finite" -> RatIsNegative(value.v)
                 [] value.kind = "PosInfinity" -> FALSE
                 [] value.kind = "NegInfinity" -> TRUE
                 [] OTHER -> FALSE
    IN  CASE value.kind = "Nan" -> SoftFloat("Nan", FALSE, 0, 0)
          [] value.kind = "PosInfinity" ->
                SoftFloat("PosInfinity", FALSE, max_exponent(sp) + 1, 0)
          [] value.kind = "NegInfinity" ->
                SoftFloat("NegInfinity", TRUE, max_exponent(sp) + 1, 0)
          [] OTHER ->
                IF RatIsZero(value.v)
                THEN SoftFloat("Zero", sgn, min_exponent(sp), 0)
                ELSE LET abs == RatAbs(value.v)
                         max_exp == bias(sp)
                         min_norm == 1 - bias(sp)
                         e == log2_floor(abs)
                     IN  IF e > max_exp
                         THEN SoftFloat(InfinityClass(sgn), sgn, max_exp + 1, 0)
                         ELSE IF e >= min_norm
                              THEN quantize_normal(abs, sgn, e, sp, mode)
                              ELSE quantize_subnormal(abs, sgn, sp, mode)

(***************************************************************************)
(* Bit codec.                                                              *)
(***************************************************************************)
\* str::repeat
Repeat(ch, k) == [i \in 1..k |-> ch]

\* format!("{:b}", v): the binary digits of v, "0" for 0.
RECURSIVE BinDigits(_)
BinDigits(v) ==
    IF v < 2 THEN <<IF v = 1 THEN "1" ELSE "0">>
    ELSE Append(BinDigits(v \div 2), IF v % 2 = 1 THEN "1" ELSE "0")

\* format!("{:0width$b}", v): zero-padded to at least width characters.
FormatBin(v, width) ==
    LET ds == BinDigits(v)
    IN  IF Len(ds) >= width THEN ds ELSE Repeat("0", width - Len(ds)) \o ds

\* from_str_radix(s, 2) / BigUint::parse_bytes(s, 2) on a string of 0s and 1s.
RECURSIVE ParseBin(_)
ParseBin(s) ==
    IF s = <<>> THEN 0
    ELSE 2 * ParseBin(SubSeq(s, 1, Len(s) - 1)) + (IF s[Len(s)] = "1" THEN 1 ELSE 0)

softfloat_to_bits(sf, sp) ==
    LET sign_char == <<IF sf.sign THEN "1" ELSE "0">>
        exp_bits == sp.exponent_bits
        frac_bits == sp.significand_bits
    IN  CASE sf.class \in {"PosInfinity", "NegInfinity"} ->
                sign_char \o Repeat("1", exp_bits) \o Repeat("0", frac_bits)
          [] sf.class = "Nan" ->
                sign_char \o Repeat("1", exp_bits) \o Repeat("1", frac_bits)
          [] sf.class \in {"Zero", "Subnormal"} ->
                sign_char \o Repeat("0", exp_bits) \o FormatBin(sf.significand, frac_bits)
          [] OTHER ->
                sign_char \o FormatBin(sf.exponent + bias(sp), exp_bits)
                          \o FormatBin(sf.significand, frac_bits)

HexLower == <<"0", "1", "2", "3", "4", "5", "6", "7",
              "8", "9", "a", "b", "c", "d", "e", "f">>

HexUpper == <<"0", "1", "2", "3", "4", "5", "6", "7",
              "8", "9", "A", "B", "C", "D", "E", "F">>

\* char::to_uppercase on the characters format!("{:x}") produces.
ToUpper(ch) ==
    IF \E i \in 1..16 : HexLower[i] = ch
    THEN HexUpper[CHOOSE i \in 1..16 : HexLower[i] = ch]
    ELSE ch

\* char::to_digit(16): the digit's value, or -1 for None.
ToDigit16(ch) ==
    IF \E i \in 1..16 : HexLower[i] = ch THEN (CHOOSE i \in 1..16 : HexLower[i] = ch) - 1
    ELSE IF \E i \in 1..16 : HexUpper[i] = ch
         THEN (CHOOSE i \in 1..16 : HexUpper[i] = ch) - 1
         ELSE -1

\* str::trim (the only whitespace modelled is the space).
RECURSIVE TrimStart(_)
TrimStart(s) == IF s # <<>> /\ s[1] = " " THEN TrimStart(Tail(s)) ELSE s

RECURSIVE TrimEnd(_)
TrimEnd(s) ==
    IF s # <<>> /\ s[Len(s)] = " " THEN TrimEnd(SubSeq(s, 1, Len(s) - 1)) ELSE s

Trim(s) == TrimEnd(TrimStart(s))

StartsWith(s, p) == Len(s) >= Len(p) /\ SubSeq(s, 1, Len(p)) = p

\* str::trim_start_matches(pattern): strips every leading repetition.
RECURSIVE trim_start_matches(_, _)
trim_start_matches(s, p) ==
    IF StartsWith(s, p) THEN trim_start_matches(SubSeq(s, Len(p) + 1, Len(s)), p)
    ELSE s

RECURSIVE Concat(_)
Concat(ss) == IF ss = <<>> THEN <<>> ELSE Head(ss) \o Concat(Tail(ss))

bits_to_hex(bs) ==
    LET padded_len == ((Len(bs) + 3) \div 4) * 4
        padded == Repeat("0", padded_len - Len(bs)) \o bs
        digits == [i \in 1..(padded_len \div 4) |->
                      HexLower[ParseBin(SubSeq(padded, 4 * i - 3, 4 * i)) + 1]]
        stripped == trim_start_matches(digits, <<"0">>)
    IN  [i \in 1..Len(stripped) |-> ToUpper(stripped[i])]

Ok(v) == [ok |-> TRUE, val |-> v, err |-> ""]
Err(msg) == [ok |-> FALSE, val |-> <<>>, err |-> msg]

\* The bits of a string of hex digits, four per digit.
HexDigitBits(hx) == Concat([i \in 1..Len(hx) |-> FormatBin(ToDigit16(hx[i]), 4)])

\* hex_to_bits without the left padding to the expected number of digits.
hex_to_bits_unpadded(hx, total) ==
    LET cleaned == trim_start_matches(
                       trim_start_matches(Trim(hx), <<"0", "x">>), <<"0", "X">>)
    IN  IF Len(cleaned) # (total + 3) \div 4
        THEN Err("hex length does not match expected bits")
        ELSE IF \E i \in 1..Len(cleaned) : ToDigit16(cleaned[i]) = -1
             THEN Err("invalid hex digit")
             ELSE Ok(SubSeq(HexDigitBits(cleaned), 4 * Len(cleaned) - total + 1,
                            4 * Len(cleaned)))

\* hex_to_bits without the length test: surplus leading digits are dropped.
hex_to_bits_lenient(hx, total) ==
    LET cleaned == trim_start_matches(
                       trim_start_matches(Trim(hx), <<"0", "x">>), <<"0", "X">>)
        padded == Repeat("0", (total + 3) \div 4 - Len(cleaned)) \o cleaned
    IN  IF \E i \in 1..Len(padded) : ToDigit16(padded[i]) = -1
        THEN Err("invalid hex digit")
        ELSE Ok(SubSeq(HexDigitBits(padded), 4 * Len(padded) - total + 1, 4 * Len(padded)))

hex_to_bits(hx, total) ==
    LET cleaned == trim_start_matches(
                       trim_start_matches(Trim(hx), <<"0", "x">>), <<"0", "X">>)
        bits_needed == total
        expected_hex == (bits_needed + 3) \div 4
        padded == IF Len(cleaned) < expected_hex
                  THEN Repeat("0", expected_hex - Len(cleaned)) \o cleaned
                  ELSE cleaned
        all_bits == HexDigitBits(padded)
    IN  IF Len(padded) # expected_hex THEN Err("hex length does not match expected bits")
        ELSE IF \E i \in 1..Len(padded) : ToDigit16(padded[i]) = -1
             THEN Err("invalid hex digit")
             ELSE IF Len(all_bits) > bits_needed
                  THEN Ok(SubSeq(all_bits, Len(all_bits) - bits_needed + 1, Len(all_bits)))
                  ELSE Ok(all_bits)

NoSoft == SoftFloat("None", FALSE, 0, 0)

OkSoft(sf) == [ok |-> TRUE, val |-> sf, err |-> ""]
ErrSoft(msg) == [ok |-> FALSE, val |-> NoSoft, err |-> msg]

bits_to_softfloat(bs, sp) ==
    LET trimmed == Trim(bs)
        cleaned == IF StartsWith(trimmed, <<"0", "b">>) \/ StartsWith(trimmed, <<"0", "B">>)
                   THEN SubSeq(trimmed, 3, Len(trimmed))
                   ELSE trimmed
        total == total_bits(sp)
        sgn == cleaned[1] = "1"
        exp_bits == SubSeq(cleaned, 2, 1 + sp.exponent_bits)
        frac_bits == SubSeq(cleaned, 2 + sp.exponent_bits, Len(cleaned))
        exp_val == ParseBin(exp_bits)
        mantissa == ParseBin(frac_bits)
        all_exp_ones == \A i \in 1..Len(exp_bits) : exp_bits[i] = "1"
        all_exp_zero == \A i \in 1..Len(exp_bits) : exp_bits[i] = "0"
        all_frac_zero == mantissa = 0
        min_exp == min_exponent(sp)
    IN  IF Len(cleaned) # total THEN ErrSoft("expected bits")
        ELSE IF \E i \in 1..Len(cleaned) : cleaned[i] \notin {"0", "1"}
             THEN ErrSoft("bits must contain only 0 or 1")
             ELSE IF all_exp_ones
                  THEN OkSoft(SoftFloat(IF all_frac_zero THEN InfinityClass(sgn) ELSE "Nan",
                                        sgn, max_exponent(sp), mantissa))
                  ELSE IF all_exp_zero
                       THEN OkSoft(SoftFloat(IF all_frac_zero THEN "Zero" ELSE "Subnormal",
                                             sgn, min_exp, mantissa))
                       ELSE OkSoft(SoftFloat("Normal", sgn, exp_val - bias(sp), mantissa))

Some(r) == [some |-> TRUE, v |-> r]
None == [some |-> FALSE, v |-> RatZero]

\* softfloat_to_rational without the implicit leading one of a Normal.
softfloat_to_rational_no_leading_one(sf, sp) ==
    CASE sf.class \in {"PosInfinity", "NegInfinity", "Nan"} -> None
      [] sf.class = "Zero" -> Some(RatZero)
      [] OTHER ->
            LET value == RatMul(RatNew(sf.significand, Pow(2, sp.significand_bits)),
                                pow2(IF sf.class = "Normal" THEN sf.exponent
                                     ELSE min_exponent(sp)))
            IN  Some(IF sf.sign THEN RatNeg(value) ELSE value)

softfloat_to_rational(sf, sp) ==
    CASE sf.class \in {"PosInfinity", "NegInfinity", "Nan"} -> None
      [] sf.class = "Zero" -> Some(RatZero)
      [] sf.class = "Subnormal" ->
            LET denom == Pow(2, sp.significand_bits)
                sig == RatNew(sf.significand, denom)
                value == RatMul(sig, pow2(min_exponent(sp)))
            IN  Some(IF sf.sign THEN RatNeg(value) ELSE value)
      [] OTHER ->
            LET denom == Pow(2, sp.significand_bits)
                frac == RatNew(sf.significand, denom)
                sig == RatAdd(RatOne, frac)
                value == RatMul(sig, pow2(sf.exponent))
            IN  Some(IF sf.sign THEN RatNeg(value) ELSE value)

(***************************************************************************)
(* Decimal parser.                                                         *)
(***************************************************************************)
Digits10 == <<"0", "1", "2", "3", "4", "5", "6", "7", "8", "9">>

IsDigit(ch) == \E i \in 1..10 : Digits10[i] = ch

DigitVal(ch) == (CHOOSE i \in 1..10 : Digits10[i] = ch) - 1

RECURSIVE ParseDigits(_)
ParseDigits(s) ==
    IF s = <<>> THEN 0
    ELSE 10 * ParseDigits(SubSeq(s, 1, Len(s) - 1)) + DigitVal(s[Len(s)])

\* BigInt::from_str / i128::from_str: an optional sign, then one or more digits.
ParseSigned(s) ==
    LET signed == s # <<>> /\ s[1] \in {"+", "-"}
        body == IF signed THEN Tail(s) ELSE s
    IN  IF body = <<>> \/ \E i \in 1..Len(body) : ~IsDigit(body[i])
        THEN [ok |-> FALSE, val |-> 0]
        ELSE [ok |-> TRUE,
              val |-> IF signed /\ s[1] = "-" THEN -ParseDigits(body) ELSE ParseDigits(body)]

\* str::find: the first index holding one of the characters, 0 for None.
Find(s, chars) ==
    IF \E i \in 1..Len(s) : s[i] \in chars
    THEN CHOOSE i \in 1..Len(s) : s[i] \in chars /\ \A j \in 1..(i - 1) : s[j] \notin chars
    ELSE 0

\* BigDecimal::from_str followed by into_bigint_and_exponent: the digits as an
\* integer and the scale, the value being int_val * 10^(-scale).
BigDecimalFromStr(s) ==
    LET eloc == Find(s, {"e", "E"})
        base_part == IF eloc = 0 THEN s ELSE SubSeq(s, 1, eloc - 1)
        exponent_value == IF eloc = 0 THEN [ok |-> TRUE, val |-> 0]
                          ELSE ParseSigned(SubSeq(s, eloc + 1, Len(s)))
        ploc == Find(base_part, {"."})
        digits == IF ploc = 0 THEN base_part
                  ELSE SubSeq(base_part, 1, ploc - 1)
                       \o SubSeq(base_part, ploc + 1, Len(base_part))
        decimal_offset == IF ploc = 0 THEN 0 ELSE Len(base_part) - ploc
        big_int == ParseSigned(digits)
    IN  IF base_part = <<>> \/ ~exponent_value.ok \/ ~big_int.ok
        THEN [ok |-> FALSE, int_val |-> 0, scale |-> 0]
        ELSE [ok |-> TRUE, int_val |-> big_int.val,
              scale |-> decimal_offset - exponent_value.val]

\* str::to_ascii_lowercase on the letters of the special literals.
AsciiLower(ch) ==
    CASE ch = "I" -> "i" [] ch = "N" -> "n" [] ch = "F" -> "f"
      [] ch = "T" -> "t" [] ch = "Y" -> "y" [] ch = "A" -> "a"
      [] OTHER -> ch

NoValue == Special("None")

parse_decimal(raw) ==
    LET trimmed == Trim(raw)
        lower == [i \in 1..Len(trimmed) |-> AsciiLower(trimmed[i])]
        dec == BigDecimalFromStr(raw)
        e == dec.scale
        scale == IF e >= 0 THEN 1 ELSE Pow(10, -e)
    IN  CASE lower \in {<<"i", "n", "f">>, <<"+", "i", "n", "f">>,
                        <<"i", "n", "f", "i", "n", "i", "t", "y">>} ->
                [ok |-> TRUE, val |-> Special("PosInfinity")]
          [] lower \in {<<"-", "i", "n", "f">>,
                        <<"-", "i", "n", "f", "i", "n", "i", "t", "y">>} ->
                [ok |-> TRUE, val |-> Special("NegInfinity")]
          [] lower = <<"n", "a", "n">> -> [ok |-> TRUE, val |-> Special("Nan")]
          [] OTHER ->
                IF ~dec.ok THEN [ok |-> FALSE, val |-> NoValue]
                ELSE [ok |-> TRUE, val |-> Finite(RatNew(dec.int_val, scale))]

(***************************************************************************)
(* Inputs: the formats, rounding modes and input texts explored.           *)
(***************************************************************************)
FloatSpec(e, m) == [exponent_bits |-> e, significand_bits |-> m]

\* --format=custom with --exp and --mant, within the explored widths.
Formats == {FloatSpec(e, m) : e \in 2..MaxExpBits, m \in 1..MaxSigBits}

FP16 == FloatSpec(5, 10)
FP32 == FloatSpec(8, 23)

RoundingModes == {"HalfEven", "TowardZero"}

Denominators == UNION {{Pow(2, k), 3 * Pow(2, k)} : k \in 0..MaxDenLog}

Rationals == {RatNew(sg * num, den) :
                 sg \in {1, -1}, num \in 0..MaxNumer, den \in Denominators}

ParsedValues == {Finite(r) : r \in Rationals}
                    \cup {Special(k) : k \in {"PosInfinity", "NegInfinity", "Nan"}}

SeqsUpTo(S, lo, hi) == UNION {[1..k -> S] : k \in lo..hi}

BitStrings(sp) ==
    LET exact == [1..total_bits(sp) -> {"0", "1"}]
    IN  exact \cup {<<"0", "b">> \o b : b \in exact}
              \cup [1..(total_bits(sp) - 1) -> {"1"}]
              \cup {[i \in 1..total_bits(sp) |-> "2"]}

HexAlphabet == {"0", "7", "c", "g"}

HexStrings == {p \o h : p \in {<<>>, <<"0", "x">>, <<"0", "X">>},
                        h \in SeqsUpTo(HexAlphabet, 0, MaxHexLen)}

DecDigits == {"0", "1", "5"}

\* A decimal numeral: sign, integer part, optional fraction, optional exponent.
Numeral(neg, ip, fp, ex) ==
    (IF neg THEN <<"-">> ELSE <<>>) \o ip
        \o (IF fp = <<>> THEN <<>> ELSE <<".">> \o fp)
        \o (IF ex = 0 THEN <<>>
            ELSE <<"e">> \o (IF ex < 0 THEN <<"-">> ELSE <<>>)
                 \o <<Digits10[Abs(ex) + 1]>>)

Numerals == {Numeral(neg, ip, fp, ex) :
                neg \in BOOLEAN, ip \in SeqsUpTo(DecDigits, 1, MaxIntDigits),
                fp \in SeqsUpTo(DecDigits, 0, MaxFracDigits),
                ex \in (-MaxDecExp)..MaxDecExp}

\* The numerals of the unit tests.
TestNumerals == {<<"0", ".", "1">>, <<"-", "2", ".", "5">>, <<"1", ".", "5">>}

Literals == {<<"i", "n", "f">>, <<"+", "i", "n", "f">>, <<"-", "i", "n", "f">>,
             <<"I", "n", "f", "i", "n", "i", "t", "y">>,
             <<"-", "i", "n", "f", "i", "n", "i", "t", "y">>, <<"N", "a", "N">>,
             <<"x">>}

Decimal(raw) == [kind |-> "Decimal", text |-> raw, value |-> NoValue]
Bits(b) == [kind |-> "Bits", text |-> b, value |-> NoValue]
Hex(h) == [kind |-> "Hex", text |-> h, value |-> NoValue]
Value(v) == [kind |-> "Value", text |-> <<>>, value |-> v]

Inputs(sp) == {Decimal(raw) : raw \in Numerals \cup Literals}
                  \cup {Bits(b) : b \in BitStrings(sp)}
                  \cup {Hex(h) : h \in HexStrings}
                  \cup {Value(v) : v \in ParsedValues}

\* The bit strings the unit tests expect.
FP32_OneTenth ==
    <<"0", "0", "1", "1", "1", "1", "0", "1",
      "1", "1", "0", "0", "1", "1", "0", "0",
      "1", "1", "0", "0", "1", "1", "0", "0",
      "1", "1", "0", "0", "1", "1", "0", "1">>
FP32_MinusTwoPointFive ==
    <<"1", "1", "0", "0", "0", "0", "0", "0",
      "0", "0", "1", "0", "0", "0", "0", "0",
      "0", "0", "0", "0", "0", "0", "0", "0",
      "0", "0", "0", "0", "0", "0", "0", "0">>
FP32_OnePointFive ==
    <<"0", "0", "1", "1", "1", "1", "1", "1",
      "1", "1", "0", "0", "0", "0", "0", "0",
      "0", "0", "0", "0", "0", "0", "0", "0",
      "0", "0", "0", "0", "0", "0", "0", "0">>
FP16_OnePointFive ==
    <<"0", "0", "1", "1", "1", "1", "1", "0",
      "0", "0", "0", "0", "0", "0", "0", "0">>

\* The inputs of the repository's unit tests, at the preset formats.
FP32Inputs ==
    {Decimal(raw) : raw \in TestNumerals} \cup
    {Value(Finite(RatNew(3, 2))), Value(Finite(RatNew(1, 10))),
     Hex(<<"0", "X", "3", "F", "C", "0", "0", "0", "0", "0">>),
     Bits(<<"0", "b">> \o FP32_OnePointFive)}

FP16Inputs == {Decimal(raw) : raw \in TestNumerals} \cup {Value(Finite(RatNew(3, 2)))}

(***************************************************************************)
(* The program: main converts the input to a SoftFloat, then reports it.   *)
(***************************************************************************)
Init ==
    /\ \/ spec \in Formats /\ input \in Inputs(spec)
       \/ spec = FP32 /\ input \in FP32Inputs
       \/ spec = FP16 /\ input \in FP16Inputs
    /\ rounding \in RoundingModes
    /\ pc = "start"
    /\ soft = NoSoft
    /\ source_rational = None
    /\ stored_value = None
    /\ bits = <<>>
    /\ hex = <<>>
    /\ error = None
    /\ failure = ""
    /\ exp = 0

Fail(msg) ==
    /\ pc' = "failed"
    /\ failure' = msg
    /\ UNCHANGED <<soft, source_rational>>

\* Input::Bits(b) => bits_to_softfloat(&b, &spec)?
ConvertBits ==
    /\ pc = "start" /\ input.kind = "Bits"
    /\ LET r == bits_to_softfloat(input.text, spec)
       IN  IF r.ok
           THEN soft' = r.val /\ pc' = "converted" /\ UNCHANGED <<source_rational, failure>>
           ELSE Fail(r.err)
    /\ UNCHANGED <<spec, rounding, input, stored_value, bits, hex, error, exp>>

\* Input::Hex(h) => bits_to_softfloat(&hex_to_bits(&h, total_bits(&spec)?)?, &spec)?
ConvertHex ==
    /\ pc = "start" /\ input.kind = "Hex"
    /\ LET hb == hex_to_bits(input.text, total_bits(spec))
           r == bits_to_softfloat(hb.val, spec)
       IN  IF ~hb.ok THEN Fail(hb.err)
           ELSE IF ~r.ok THEN Fail(r.err)
           ELSE soft' = r.val /\ pc' = "converted" /\ UNCHANGED <<source_rational, failure>>
    /\ UNCHANGED <<spec, rounding, input, stored_value, bits, hex, error, exp>>

\* Input::Decimal(d) => parsed_to_softfloat(&parse_decimal(d)?, &spec, cli.rounding)
ConvertDecimal ==
    /\ pc = "start" /\ input.kind = "Decimal"
    /\ LET parsed == parse_decimal(input.text)
       IN  IF ~parsed.ok THEN Fail("unable to parse decimal input")
           ELSE /\ source_rational' = IF parsed.val.kind = "Finite"
                                      THEN Some(parsed.val.v) ELSE None
                /\ soft' = parsed_to_softfloat(parsed.val, spec, rounding)
                /\ pc' = "converted"
                /\ UNCHANGED failure
    /\ UNCHANGED <<spec, rounding, input, stored_value, bits, hex, error, exp>>

\* parsed_to_softfloat called on a ParsedValue directly, as the unit tests do;
\* source_rational keeps the value quantized, as main does for decimal input.
ConvertValue ==
    /\ pc = "start" /\ input.kind = "Value"
    /\ soft' = parsed_to_softfloat(input.value, spec, rounding)
    /\ source_rational' = IF input.value.kind = "Finite" THEN Some(input.value.v) ELSE None
    /\ pc' = "converted"
    /\ UNCHANGED <<spec, rounding, input, stored_value, bits, hex, error, failure, exp>>

\* The stored value, the bit string, the hex string and the Error line.
Report ==
    /\ pc = "converted"
    /\ stored_value' = softfloat_to_rational(soft, spec)
    /\ bits' = softfloat_to_bits(soft, spec)
    /\ hex' = bits_to_hex(bits')
    /\ error' = IF stored_value'.some /\ source_rational.some
                THEN Some(RatSub(stored_value'.v, source_rational.v))
                ELSE None
    /\ pc' = "done"
    /\ UNCHANGED <<spec, rounding, input, soft, source_rational, failure, exp>>

Next == ConvertBits \/ ConvertHex \/ ConvertDecimal \/ ConvertValue \/ Report

Spec == Init /\ [][Next]_vars

(***************************************************************************)
(* log2_floor on its own, one loop iteration per step, called as the unit  *)
(* test does on a positive rational.                                       *)
(***************************************************************************)
PositiveRationals == {r \in Rationals : r.n > 0}

InitLog2 ==
    /\ spec = FP32
    /\ rounding = "HalfEven"
    /\ input \in {Value(Finite(r)) : r \in PositiveRationals}
    /\ pc = "log2_call"
    /\ soft = NoSoft
    /\ source_rational = None
    /\ stored_value = None
    /\ bits = <<>>
    /\ hex = <<>>
    /\ error = None
    /\ failure = ""
    /\ exp = 0

Log2Frame == <<spec, rounding, input, soft, source_rational, stored_value,
               bits, hex, error, failure>>

\* num_bits, den_bits and the initial exp.
Log2Enter ==
    /\ pc = "log2_call"
    /\ exp' = log2_floor_start(input.value.v)
    /\ pc' = "log2_loop"
    /\ UNCHANGED Log2Frame

\* One iteration that does not return; the search is cut off at MaxSearch.
Log2Iterate ==
    /\ pc = "log2_loop"
    /\ ~log2_floor_found(input.value.v, exp)
    /\ Abs(log2_floor_step(input.value.v, exp)) <= MaxSearch
    /\ exp' = log2_floor_step(input.value.v, exp)
    /\ UNCHANGED <<pc, Log2Frame>>

\* return exp
Log2Return ==
    /\ pc = "log2_loop"
    /\ log2_floor_found(input.value.v, exp)
    /\ pc' = "log2_returned"
    /\ UNCHANGED <<exp, Log2Frame>>

NextLog2 == Log2Enter \/ Log2Iterate \/ Log2Return

\* The loop is sequential code: an enabled iteration is always taken.
SpecLog2 == InitLog2 /\ [][NextLog2]_vars /\ WF_vars(NextLog2)

(***************************************************************************)
(* Reference semantics used by the properties.                             *)
(***************************************************************************)
Converted == pc \in {"converted", "done"}

FiniteClasses == {"Zero", "Subnormal", "Normal"}

RefPow2(m, x) == IF x >= 0 THEN RatInt(m * Pow(2, x)) ELSE RatNew(m, Pow(2, -x))

\* The value (-1)^s * (1 + f/2^M) * 2^(e - bias), or (f/2^M) * 2^(1 - bias) when
\* e = 0, of sign s, exponent field e and significand field f.
RefFieldsValue(s, e, f, sp) ==
    LET mag == IF e = 0
               THEN RefPow2(f, 1 - bias(sp) - sp.significand_bits)
               ELSE RefPow2(Pow(2, sp.significand_bits) + f,
                            e - bias(sp) - sp.significand_bits)
    IN  IF s THEN RatNeg(mag) ELSE mag

\* The decimal value a numeral denotes: integer part plus fraction digits over
\* 10^k, times ten to the exponent.
NumeralValue(raw) ==
    LET neg == raw[1] = "-"
        body == IF neg THEN Tail(raw) ELSE raw
        eloc == Find(body, {"e"})
        mant == IF eloc = 0 THEN body ELSE SubSeq(body, 1, eloc - 1)
        ex == IF eloc = 0 THEN 0 ELSE ParseSigned(SubSeq(body, eloc + 1, Len(body))).val
        ploc == Find(mant, {"."})
        ip == IF ploc = 0 THEN mant ELSE SubSeq(mant, 1, ploc - 1)
        fp == IF ploc = 0 THEN <<>> ELSE SubSeq(mant, ploc + 1, Len(mant))
        unscaled == RatAdd(RatInt(ParseDigits(ip)), RatNew(ParseDigits(fp), Pow(10, Len(fp))))
        scaled == IF ex >= 0 THEN RatMul(unscaled, RatInt(Pow(10, ex)))
                  ELSE RatDiv(unscaled, RatInt(Pow(10, -ex)))
    IN  IF neg THEN RatNeg(scaled) ELSE scaled

(***************************************************************************)
(* C1: round-trip law. Decoding the encoding of every SoftFloat that the   *)
(* quantizer or the decoder produced succeeds and gives back the same      *)
(* class, sign, exponent and significand.                                  *)
(***************************************************************************)
C1_RoundTrip ==
    pc = "done" => bits_to_softfloat(bits, spec) = OkSoft(soft)

(***************************************************************************)
(* C2: a decimal numeral is parsed to exactly the value it denotes, so the *)
(* tests' numerals encode to their IEEE754 reference bits under HalfEven.  *)
(***************************************************************************)
C2_DecimalExact ==
    (input.kind = "Decimal" /\ input.text \in Numerals \cup TestNumerals /\ Converted) =>
        /\ source_rational = Some(NumeralValue(input.text))
        /\ (pc = "done" /\ rounding = "HalfEven") =>
              /\ (spec = FP32 /\ input.text = <<"0", ".", "1">>) => bits = FP32_OneTenth
              /\ (spec = FP32 /\ input.text = <<"-", "2", ".", "5">>) =>
                    bits = FP32_MinusTwoPointFive
              /\ (spec = FP16 /\ input.text = <<"1", ".", "5">>) => bits = FP16_OnePointFive

(***************************************************************************)
(* C8: sentinel exponents. Every SoftFloat built by the quantizer or the   *)
(* decoder has exponent 1 - bias when Zero or Subnormal and bias + 1 when  *)
(* PosInfinity or NegInfinity.                                             *)
(***************************************************************************)
C8_SentinelExponent ==
    Converted =>
        /\ soft.class \in {"Zero", "Subnormal"} => soft.exponent = 1 - bias(spec)
        /\ soft.class \in {"PosInfinity", "NegInfinity"} => soft.exponent = bias(spec) + 1

\* Representable magnitudes of a format, in increasing order.
\* The position of a finite SoftFloat among the format's magnitudes.
Ordinal(sf, sp) ==
    IF sf.class = "Normal"
    THEN (sf.exponent + bias(sp)) * Pow(2, sp.significand_bits) + sf.significand
    ELSE sf.significand

\* The magnitude at position k, continued past the largest finite value.
Magnitude(k, sp) ==
    RefFieldsValue(FALSE, k \div Pow(2, sp.significand_bits),
                   k % Pow(2, sp.significand_bits), sp)

MaxOrdinal(sp) == (Pow(2, sp.exponent_bits) - 1) * Pow(2, sp.significand_bits) - 1

WellFormed(sf, sp) ==
    /\ sf.significand \in 0..(Pow(2, sp.significand_bits) - 1)
    /\ sf.class = "Normal" => sf.exponent + bias(sp) \in 1..(Pow(2, sp.exponent_bits) - 2)
    /\ sf.class = "Subnormal" => sf.significand # 0
    /\ sf.class = "Zero" => sf.significand = 0

Dist(a, b) == RatAbs(RatSub(a, b))

\* |v| lies below the midpoint of the largest finite magnitude and 2^(bias+1).
BelowOverflow(v, sp) ==
    RatLt(RatMul(RatInt(2), RatAbs(v)),
          RatAdd(Magnitude(MaxOrdinal(sp), sp), Magnitude(MaxOrdinal(sp) + 1, sp)))

NearestEven(sf, v, sp) ==
    LET k == Ordinal(sf, sp)
        a == RatAbs(v)
        here == Dist(Magnitude(k, sp), a)
        up == Dist(Magnitude(k + 1, sp), a)
        down == Dist(Magnitude(k - 1, sp), a)
    IN  /\ sf.class \in FiniteClasses
        /\ WellFormed(sf, sp)
        /\ sf.sign = RatIsNegative(v)
        /\ RatLe(here, up)
        /\ here = up => k % 2 = 0
        /\ k > 0 => RatLe(here, down) /\ (here = down => k % 2 = 0)

HalfEvenCase ==
    /\ Converted /\ rounding = "HalfEven" /\ spec \in Formats
    /\ source_rational.some /\ ~RatIsZero(source_rational.v)
    /\ BelowOverflow(source_rational.v, spec)

(***************************************************************************)
(* C3: round-half-to-even is correct. For a finite nonzero v whose rounded *)
(* magnitude does not overflow, the HalfEven result is a finite class with *)
(* the sign of v whose value is the representable value nearest to v; on   *)
(* an exact tie the significand's last bit is 0; a representable v comes   *)
(* back unchanged (3/2 at FP32 is Normal, exponent 0, bits 0x3FC00000).    *)
(***************************************************************************)
C3_HalfEvenNearest ==
    /\ HalfEvenCase => NearestEven(soft, source_rational.v, spec)
    /\ (pc = "done" /\ rounding = "HalfEven" /\ spec = FP32
            /\ input = Value(Finite(RatNew(3, 2)))) =>
          /\ soft = SoftFloat("Normal", FALSE, 0, Pow(2, 22))
          /\ bits = FP32_OnePointFive

\* An exact tie between two representable values was rounded.
C3_Witness ==
    /\ HalfEvenCase /\ input.kind = "Value"
    /\ Dist(Magnitude(Ordinal(soft, spec), spec), RatAbs(source_rational.v))
           = Dist(Magnitude(Ordinal(soft, spec) + 1, spec), RatAbs(source_rational.v))
    /\ soft.class = "Subnormal"

\* Units in the last place at a result's exponent.
InFiniteRange(v, sp) == RatLe(RatAbs(v), Magnitude(MaxOrdinal(sp), sp))

HalfUlp(sf, sp) == RefPow2(1, sf.exponent - sp.significand_bits - 1)

Ulp(sf, sp) == RefPow2(1, sf.exponent - sp.significand_bits)

ErrorCase ==
    /\ pc = "done" /\ spec \in Formats
    /\ source_rational.some /\ InFiniteRange(source_rational.v, spec)

(***************************************************************************)
(* C4: rounding error bound. For v within the finite range of the format,  *)
(* the reconstructed value of the result differs from v by at most         *)
(* 2^(exponent - significandBits - 1), half a unit in the last place.      *)
(* As stated, for both rounding modes:                                     *)
(***************************************************************************)
C4_HalfUlpBothModes ==
    ErrorCase => error.some /\ RatLe(RatAbs(error.v), HalfUlp(soft, spec))

\* C4 as amended: half a unit in the last place under HalfEven; under
\* TowardZero less than one unit, the result never larger in magnitude than v.
C4_ErrorBound ==
    ErrorCase =>
        /\ error.some
        /\ rounding = "HalfEven" => RatLe(RatAbs(error.v), HalfUlp(soft, spec))
        /\ rounding = "TowardZero" =>
              /\ RatLt(RatAbs(error.v), Ulp(soft, spec))
              /\ RatLe(RatAbs(stored_value.v), RatAbs(source_rational.v))

\* A truncation that lost more than half a unit in the last place.
C4_Witness ==
    /\ ErrorCase /\ rounding = "TowardZero" /\ soft.class = "Normal"
    /\ RatLt(HalfUlp(soft, spec), RatAbs(error.v))

\* Values at or beyond 2^(bias+1).
OverflowCase ==
    /\ Converted /\ spec \in Formats /\ source_rational.some
    /\ RatLe(RefPow2(1, bias(spec) + 1), RatAbs(source_rational.v))

(***************************************************************************)
(* C5: overflow to signed infinity. A finite v with |v| >= 2^(bias+1) is   *)
(* quantized, under either rounding mode, to PosInfinity with sign false   *)
(* when v > 0 and to NegInfinity with sign true when v < 0, with a zero    *)
(* significand, never to a finite class.                                   *)
(***************************************************************************)
C5_OverflowToInfinity ==
    OverflowCase =>
        /\ soft.significand = 0
        /\ source_rational.v.n > 0 => soft.class = "PosInfinity" /\ soft.sign = FALSE
        /\ source_rational.v.n < 0 => soft.class = "NegInfinity" /\ soft.sign = TRUE

\* A negative value at or beyond the threshold was truncated toward zero.
C5_Witness ==
    /\ OverflowCase /\ rounding = "TowardZero" /\ input.kind = "Value"
    /\ source_rational.v.n < 0 /\ soft.class = "NegInfinity"

\* A bit string and its hex form.
ExpectedHex(sp) == (total_bits(sp) + 3) \div 4

HexEquivalent(b, sp) ==
    LET back == hex_to_bits(bits_to_hex(b), total_bits(sp))
    IN  /\ back = Ok(b)
        /\ bits_to_softfloat(back.val, sp) = bits_to_softfloat(b, sp)

(***************************************************************************)
(* C6: hex and bit-string inputs are equivalent. For every bit string b of *)
(* the format's width, hex_to_bits(bits_to_hex(b), width) succeeds and     *)
(* returns b although bits_to_hex strips leading zero digits, so decoding  *)
(* the hex form gives the same SoftFloat as decoding b. Checked on every   *)
(* bit string given as input and on every bit string the program reports.  *)
(***************************************************************************)
C6_HexRoundTrip ==
    /\ (pc = "converted" /\ input.kind = "Bits" /\ Len(input.text) = total_bits(spec)) =>
          HexEquivalent(input.text, spec)
    /\ pc = "done" =>
          /\ hex_to_bits(hex, total_bits(spec)) = Ok(bits)
          /\ bits_to_softfloat(hex_to_bits(hex, total_bits(spec)).val, spec)
                 = bits_to_softfloat(bits, spec)

\* A width that is no multiple of 4 whose hex form lost leading zero digits.
C6_Witness ==
    /\ pc = "done" /\ input.kind = "Bits"
    /\ total_bits(spec) % 4 # 0
    /\ hex # <<>> /\ Len(hex) < ExpectedHex(spec)
    /\ bits = input.text

\* Hex inputs made of valid digits.
Cleaned(hx) == trim_start_matches(trim_start_matches(hx, <<"0", "x">>), <<"0", "X">>)

ValidHex(hx) == \A i \in 1..Len(hx) : \E j \in 1..16 : hx[i] \in {HexLower[j], HexUpper[j]}

RECURSIVE HexValue(_)
HexValue(hx) ==
    IF hx = <<>> THEN 0
    ELSE 16 * HexValue(SubSeq(hx, 1, Len(hx) - 1)) + ToDigit16(hx[Len(hx)])

\* The conversion succeeded with the low totalBits bits of the digits' value.
LowBitsOf(hx, sp) ==
    LET r == hex_to_bits(hx, total_bits(sp))
    IN  /\ r.ok
        /\ Len(r.val) = total_bits(sp)
        /\ ParseBin(r.val) = HexValue(Cleaned(hx)) % Pow(2, total_bits(sp))
        /\ pc \in {"converted", "done"} => soft = bits_to_softfloat(r.val, sp).val

HexCase ==
    /\ pc # "start" /\ input.kind = "Hex" /\ spec \in Formats
    /\ ValidHex(Cleaned(input.text))

(***************************************************************************)
(* C7: lenient hex truncation. Given valid hex digits, more of them than   *)
(* the format needs, hex_to_bits does not fail and returns the             *)
(* least-significant totalBits bits of the value. As stated:               *)
(***************************************************************************)
C7_LenientTruncation ==
    (HexCase /\ Len(Cleaned(input.text)) > ExpectedHex(spec)) =>
        pc # "failed" /\ LowBitsOf(input.text, spec)

\* C7 as amended: more digits than the format needs is a length error; with
\* at most that many digits the result is the low totalBits bits of the value,
\* the excess high bits of the leading digit being dropped.
C7_HexLength ==
    HexCase =>
        IF Len(Cleaned(input.text)) > ExpectedHex(spec)
        THEN /\ pc = "failed"
             /\ failure = "hex length does not match expected bits"
             /\ ~hex_to_bits(input.text, total_bits(spec)).ok
        ELSE pc # "failed" /\ LowBitsOf(input.text, spec)

\* One digit too many was rejected.
C7_Witness ==
    /\ HexCase /\ Len(Cleaned(input.text)) = ExpectedHex(spec) + 1
    /\ pc = "failed" /\ input.text[1] = "7"

\* The fields of a bit string, read positionally.
\* The unsigned value of the bits b[lo..hi], most significant first.
RECURSIVE FieldValue(_, _, _)
FieldValue(b, lo, hi) ==
    IF lo > hi THEN 0
    ELSE (IF b[lo] = "1" THEN Pow(2, hi - lo) ELSE 0) + FieldValue(b, lo + 1, hi)

DecodesAsReference(b, sf, stored, sp) ==
    LET s == b[1] = "1"
        e == FieldValue(b, 2, 1 + sp.exponent_bits)
        f == FieldValue(b, 2 + sp.exponent_bits, total_bits(sp))
        ones == Pow(2, sp.exponent_bits) - 1
    IN  /\ sf.sign = s
        /\ sf.significand = f
        /\ CASE e = ones /\ f = 0 ->
                   sf.class = (IF s THEN "NegInfinity" ELSE "PosInfinity") /\ stored = None
             [] e = ones /\ f # 0 -> sf.class = "Nan" /\ stored = None
             [] e = 0 /\ f = 0 -> sf.class = "Zero" /\ stored = Some(RatZero)
             [] e = 0 /\ f # 0 ->
                   sf.class = "Subnormal" /\ stored = Some(RefFieldsValue(s, 0, f, sp))
             [] OTHER ->
                   /\ sf.class = "Normal"
                   /\ sf.exponent = e - bias(sp)
                   /\ stored = Some(RefFieldsValue(s, e, f, sp))

BitsCase ==
    /\ input.kind = "Bits" /\ spec \in Formats
    /\ Len(input.text) = total_bits(spec)
    /\ \A i \in 1..Len(input.text) : input.text[i] \in {"0", "1"}

(***************************************************************************)
(* C9: the decoder matches the IEEE754 reading of every bit pattern. With  *)
(* sign bit s, exponent field e and significand field f: the sign is s;    *)
(* the class is Infinity (by sign) for e all ones and f = 0, NaN for e all *)
(* ones and f # 0, Zero for e = 0 and f = 0, Subnormal for e = 0 and       *)
(* f # 0, otherwise Normal with exponent e - bias; and the reconstructed   *)
(* value is (-1)^s (1 + f/2^M) 2^(e-bias) for Normal,                      *)
(* (-1)^s (f/2^M) 2^(1-bias) for Subnormal, 0 for Zero, none otherwise.    *)
(***************************************************************************)
C9_DecoderReference ==
    BitsCase =>
        /\ pc # "failed"
        /\ pc = "done" => DecodesAsReference(input.text, soft, stored_value, spec)

\* A negative subnormal was decoded and reconstructed.
C9_Witness ==
    /\ BitsCase /\ pc = "done"
    /\ soft.class = "Subnormal" /\ soft.sign
    /\ stored_value.some /\ stored_value.v.n < 0

(***************************************************************************)
(* C10: fixed-width encoding. Every SoftFloat from the quantizer or the    *)
(* decoder has significand < 2^significandBits and, when Normal,           *)
(* 1 <= exponent + bias <= 2^exponentBits - 2, so its encoding has exactly *)
(* 1 + exponentBits + significandBits characters and a Normal's exponent   *)
(* field is neither all zeros nor all ones.                                *)
(***************************************************************************)
C10_FixedWidth ==
    /\ Converted =>
          /\ soft.significand < Pow(2, spec.significand_bits)
          /\ soft.class = "Normal" =>
                /\ 1 <= soft.exponent + bias(spec)
                /\ soft.exponent + bias(spec) <= Pow(2, spec.exponent_bits) - 2
    /\ pc = "done" =>
          /\ Len(bits) = 1 + spec.exponent_bits + spec.significand_bits
          /\ soft.class = "Normal" =>
                /\ \E i \in 2..(1 + spec.exponent_bits) : bits[i] = "1"
                /\ \E i \in 2..(1 + spec.exponent_bits) : bits[i] = "0"

\* The largest finite value, produced from an input that is not representable.
C10_Witness ==
    /\ pc = "done" /\ input.kind = "Value" /\ rounding = "HalfEven"
    /\ soft.class = "Normal" /\ soft.exponent = bias(spec)
    /\ soft.significand = Pow(2, spec.significand_bits) - 1
    /\ error.some /\ error.v.n # 0

\* A nonzero finite input below the smallest normal magnitude was quantized.
UnderflowCase ==
    /\ Converted /\ spec \in Formats
    /\ source_rational.some /\ ~RatIsZero(source_rational.v)
    /\ RatLt(RatAbs(source_rational.v), RefPow2(1, 1 - bias(spec)))

\* A quantized finite input, of either range.
QuantizedCase == Converted /\ spec \in Formats /\ source_rational.some

(***************************************************************************)
(* C11: underflow classification. A nonzero input in the subnormal range   *)
(* whose rounded significand is zero with no carry is classified           *)
(* Subnormal, not Zero; Zero is returned only for an input that is exactly *)
(* zero. As stated:                                                        *)
(***************************************************************************)
C11_UnderflowIsSubnormal ==
    /\ (UnderflowCase /\ soft.significand = 0 /\ soft.class # "Normal") =>
          soft.class = "Subnormal"
    /\ (QuantizedCase /\ soft.class = "Zero") => RatIsZero(source_rational.v)

\* C11 as amended: a nonzero input in the subnormal range whose rounded
\* significand is zero with no carry is classified Zero, keeping the input's
\* sign and the minimum exponent; the quantizer returns Subnormal exactly when
\* the rounded significand is nonzero, and Zero for an exactly zero input and
\* for every nonzero input that rounds to a zero significand.
C11_UnderflowIsZero ==
    /\ UnderflowCase =>
          /\ soft.class \in FiniteClasses
          /\ soft.exponent = 1 - bias(spec)
          /\ soft.sign = RatIsNegative(source_rational.v)
          /\ soft.class = "Zero" <=> (soft.significand = 0 /\ soft.class # "Normal")
          /\ soft.class = "Subnormal" <=> soft.significand # 0
    /\ (QuantizedCase /\ soft.class = "Zero") =>
          \/ RatIsZero(source_rational.v)
          \/ /\ UnderflowCase
             /\ RatLe(RatAbs(source_rational.v),
                      IF rounding = "HalfEven"
                      THEN RefPow2(1, -bias(spec) - spec.significand_bits)
                      ELSE RefPow2(1, 1 - bias(spec) - spec.significand_bits))

\* A nonzero negative input was rounded to nothing.
C11_Witness ==
    /\ UnderflowCase /\ input.kind = "Value" /\ rounding = "HalfEven"
    /\ soft.class = "Zero" /\ soft.sign

\* The exponent e with 2^e <= r < 2^(e+1), from the bit lengths of a positive
\* rational's numerator and denominator.
RefLog2(r) ==
    LET e0 == BitLen(r.n) - BitLen(r.d)
    IN  IF RatLe(RefPow2(1, e0), r) THEN e0 ELSE e0 - 1

\* A nonzero finite input that does not take the overflow return was quantized.
RoundedCase ==
    /\ QuantizedCase /\ ~RatIsZero(source_rational.v)
    /\ RefLog2(RatAbs(source_rational.v)) <= bias(spec)

\* HalfEven increments an all-ones kept significand of a normal-range input:
\* the magnitude is at or above the midpoint between the largest value of its
\* binade and the next power of two.
NormalCarryCase ==
    /\ RoundedCase /\ rounding = "HalfEven"
    /\ LET a == RatAbs(source_rational.v)
           e == RefLog2(a)
       IN  /\ e >= 1 - bias(spec)
           /\ RatLe(RefPow2(Pow(2, spec.significand_bits + 2) - 1,
                            e - spec.significand_bits - 1), a)

\* The same for a subnormal-range input: at or above the midpoint between the
\* largest subnormal and the smallest normal.
SubnormalCarryCase ==
    /\ RoundedCase /\ rounding = "HalfEven"
    /\ LET a == RatAbs(source_rational.v)
       IN  /\ RefLog2(a) < 1 - bias(spec)
           /\ RatLe(RefPow2(Pow(2, spec.significand_bits + 1) - 1,
                            -bias(spec) - spec.significand_bits), a)

(***************************************************************************)
(* C12: carry propagation under HalfEven. When rounding increments a kept  *)
(* significand that is all ones, (a) a normal-range input with exponent    *)
(* exp gives significand 0 and exponent exp+1 with class Normal if         *)
(* exp+1 <= bias, and the infinity of the input's sign if exp+1 > bias;    *)
(* (b) a subnormal-range input gives the smallest Normal, exponent         *)
(* minExponent and significand 0. Under TowardZero no carry occurs: the    *)
(* result stays in the input's binade.                                     *)
(***************************************************************************)
C12_CarryPropagation ==
    LET v == source_rational.v
        e == RefLog2(RatAbs(v))
    IN  /\ NormalCarryCase =>
              /\ soft.significand = 0
              /\ soft.sign = RatIsNegative(v)
              /\ IF e + 1 <= bias(spec)
                 THEN soft.class = "Normal" /\ soft.exponent = e + 1
                 ELSE soft.class = InfinityClass(RatIsNegative(v))
        /\ SubnormalCarryCase =>
              soft = SoftFloat("Normal", RatIsNegative(v), 1 - bias(spec), 0)
        /\ (RoundedCase /\ rounding = "TowardZero") =>
              IF e >= 1 - bias(spec)
              THEN soft.class = "Normal" /\ soft.exponent = e
              ELSE soft.class \in {"Zero", "Subnormal"}

\* A carry out of the top binade: a negative input one exponent below the
\* overflow threshold rounds up to negative infinity.
C12_Witness ==
    /\ NormalCarryCase /\ input.kind = "Value"
    /\ RefLog2(RatAbs(source_rational.v)) = bias(spec)
    /\ soft.class = "NegInfinity"

\* log2_floor has returned, and its exp is the one integer whose bracket
\* [2^exp, 2^(exp+1)) holds r; the recursive operator agrees.
Log2Returned ==
    /\ pc = "log2_returned"
    /\ RatLe(RefPow2(1, exp), input.value.v)
    /\ RatLt(input.value.v, RefPow2(1, exp + 1))
    /\ \A e \in -MaxSearch..MaxSearch :
          (RatLe(RefPow2(1, e), input.value.v)
              /\ RatLt(input.value.v, RefPow2(1, e + 1))) => e = exp
    /\ exp = log2_floor(input.value.v)

\* A loop iteration leaves exp alone or moves it up by one.
Log2StepsUp == pc = "log2_loop" => exp' \in {exp, exp + 1}

(***************************************************************************)
(* C13: log2_floor terminates for every positive rational r (r < 1, r = 1, *)
(* r > 1, exact powers of two), and the value exp it returns is the unique *)
(* integer with 2^exp <= r < 2^(exp+1); the search starting at             *)
(* bits(numerator) - bits(denominator) - 1 and stepping by one never       *)
(* oscillates or diverges: no step moves exp down, and the loop ends       *)
(* returned, for good, with exp inside that bracket.                       *)
(***************************************************************************)
C13_Log2FloorTerminates == <>[]Log2Returned /\ [][Log2StepsUp]_vars

\* The loop returned for an input below one after moving off its first guess.
C13_Witness ==
    /\ pc = "log2_returned"
    /\ RatLt(input.value.v, RatOne)
    /\ exp # log2_floor_start(input.value.v)

\* A bit string that decodes to a Normal or a Subnormal, with its exact value
\* reconstructed.
RepresentableCase ==
    /\ BitsCase /\ pc = "done"
    /\ soft.class \in {"Normal", "Subnormal"}
    /\ stored_value.some

(***************************************************************************)
(* C14: representable values are fixed points of quantization. For every   *)
(* format, both rounding modes and every bit string that decodes to class  *)
(* Normal or Subnormal, quantizing the reconstructed exact value returns   *)
(* the decoded class, sign, exponent and significand, so that re-encoding  *)
(* gives the original bit string.                                          *)
(***************************************************************************)
C14_FixedPoint ==
    RepresentableCase =>
        \A mode \in RoundingModes :
            LET q == parsed_to_softfloat(Finite(stored_value.v), spec, mode)
            IN  /\ q.class = soft.class
                /\ q.sign = soft.sign
                /\ q.exponent = soft.exponent
                /\ q.significand = soft.significand
                /\ softfloat_to_bits(q, spec) = input.text

\* The largest negative subnormal of a format was decoded and reconstructed.
C14_Witness ==
    /\ RepresentableCase
    /\ soft.class = "Subnormal" /\ soft.sign
    /\ soft.significand = Pow(2, spec.significand_bits) - 1

\* The largest multiple of 1/den strictly below v.
Below(v, den) == RatNew(-((-(v.n * den)) \div v.d) - 1, den)

\* a <= b for two quantizer results read as extended reals.
ExtLe(a, b, sp) ==
    \/ a.class = "NegInfinity"
    \/ b.class = "PosInfinity"
    \/ /\ a.class \in FiniteClasses /\ b.class \in FiniteClasses
       /\ RatLe(softfloat_to_rational(a, sp).v, softfloat_to_rational(b, sp).v)

(***************************************************************************)
(* C15: quantization is monotone. For every format, each rounding mode and *)
(* all finite rationals u <= v, the result for u is not greater than the   *)
(* result for v as extended reals (NegInfinity below every finite value,   *)
(* PosInfinity above). Checked for each quantized v against the nearest    *)
(* value below it on every explored denominator, which includes its        *)
(* predecessor in the explored set and so, by transitivity, every pair.    *)
(***************************************************************************)
C15_Monotone ==
    QuantizedCase =>
        \A den \in Denominators :
            LET u == Below(source_rational.v, den)
            IN  /\ RatLt(u, source_rational.v)
                /\ ExtLe(parsed_to_softfloat(Finite(u), spec, rounding), soft, spec)

\* Two neighbours on either side of the overflow threshold: the upper one
\* became infinity, the lower one stayed finite.
C15_Witness ==
    /\ QuantizedCase /\ input.kind = "Value"
    /\ soft.class = "PosInfinity"
    /\ \E den \in Denominators :
          parsed_to_softfloat(Finite(Below(source_rational.v, den)), spec,
                              rounding).class = "Normal"

====
